---- MODULE Spec2Model ----
(***************************************************************************)
(* Model of 3-pipeline/csrc/LC3370.c: clz (count leading zeros of a 32-bit *)
(* unsigned word), smallestNumber (all-ones mask covering the bit width of *)
(* n) and the freestanding driver main, which stores three results at the  *)
(* byte offsets 4, 8 and 12.                                               *)
(*                                                                         *)
(* A 32-bit unsigned int is the pair <<hi, lo>> of its 16-bit halves, so   *)
(* that its arithmetic keeps its width (everything is taken modulo 2^32);  *)
(* a C int is an integer in MinInt..MaxInt.                                *)
(***************************************************************************)
EXTENDS Integers, Sequences, FiniteSets, TLC

\* ------------------------------------------------------------------ bounds
\* Inputs are drawn from the values within Near of a power of two, and from
\* the small values 0..SmallMax; a harness makes at most MaxCalls calls.
Near == 1
SmallMax == 12
MaxCalls == 2

\* ----------------------------------------------------- 32-bit arithmetic
Half == 2^16

MaxInt == (Half \div 2 - 1) * Half + (Half - 1)

MinInt == (-MaxInt) - 1

Zero == <<0, 0>>

One == <<0, 1>>

\* int -> unsigned int (value modulo 2^32)
ToUnsigned(i) ==
  IF i >= 0 THEN <<i \div Half, i % Half>>
  ELSE LET j == (i + MaxInt) + 1
       IN  <<(j \div Half) + Half \div 2, j % Half>>

\* the 32-bit pattern read as a two's-complement int
ToSigned(w) ==
  IF w[1] >= Half \div 2 THEN ((w[1] - Half) * Half) + w[2]
  ELSE (w[1] * Half) + w[2]

\* a - b that loses the borrow out of the low half
Sub32NoBorrow(a, b) ==
  <<((a[1] - b[1]) + Half) % Half, ((a[2] - b[2]) + Half) % Half>>

\* unsigned a - b, modulo 2^32
Sub32(a, b) ==
  LET lo == a[2] - b[2]
      borrow == IF lo < 0 THEN 1 ELSE 0
      hi == (a[1] - b[1]) - borrow
  IN  <<(hi + Half) % Half, (lo + Half) % Half>>

\* unsigned a >> k, 0 <= k < 32
Shr32(a, k) ==
  IF k >= 16 THEN <<0, a[1] \div 2^(k - 16)>>
  ELSE <<a[1] \div 2^k, ((a[1] % 2^k) * 2^(16 - k)) + (a[2] \div 2^k)>>

\* a << k on a 32-bit register, 0 <= k < 32 (bits shifted out are lost)
Shl32(a, k) ==
  IF k >= 16 THEN <<(a[2] * 2^(k - 16)) % Half, 0>>
  ELSE <<((a[1] * 2^k) + ((a[2] * 2^k) \div Half)) % Half, (a[2] * 2^k) % Half>>

\* ------------------------------------------------------------------ inputs
\* 2^k, 0 <= k <= 30
Pow2(k) == 2^k

PosSamples ==
  {v \in UNION {{Pow2(k) - d, Pow2(k) + d} : k \in 0..30, d \in 0..Near} : v >= 1}
    \cup {MaxInt - d : d \in 0..Near}
    \cup (1..SmallMax)

\* arguments a caller may hand to clz: every sampled value, with and
\* without bit 31
ClzInputs ==
  LET low == {ToUnsigned(v) : v \in PosSamples \cup {0}}
  IN  low \cup {<<w[1] + Half \div 2, w[2]>> : w \in low}

\* arguments a caller may hand to smallestNumber
SnInputs == PosSamples \cup {0, -1, MinInt}

\* the second and third argument swapped
MainArgsSwapped == <<1, 1000, 509>>

\* the literal arguments of main's three calls
MainArgs == <<1, 509, 1000>>

\* the stores one word too low
MainAddrFromZero(k) == 4 * (k - 1)

\* the address main's k-th statement stores to
MainAddr(k) == 4 * k

\* ------------------------------------------------------------------- state
VARIABLES
  entry,    \* the function the run was started through
  stack,    \* the active calls, outermost first
  pc,       \* the position in the innermost active call
  x,        \* clz: the parameter x (the working value)
  n,        \* clz: the local n
  c,        \* clz: the local c (the stride)
  x0,       \* clz: the value x was called with
  strides,  \* clz: the strides of the rounds run so far in this call
  sn_n,     \* smallestNumber: the parameter n
  bit_len,  \* smallestNumber: the local bit_len
  shamt,    \* smallestNumber: the shift amount 32 - clz(n) of this call
  ret,      \* the return value of the last call that returned
  mainpc,   \* main: the statement in progress (1..3), 4 once all are done
  mem,      \* the memory words stored so far, by byte offset
  stores,   \* the byte offsets stored to, in order
  calls,    \* the further calls of smallestNumber its caller has made
  prev      \* the argument and the result of the caller's previous call

vars == <<entry, stack, pc, x, n, c, x0, strides, sn_n, bit_len, shamt, ret,
          mainpc, mem, stores, calls, prev>>

clzVars == <<x, n, c, x0, strides>>

mainVars == <<mainpc, mem, stores>>

Top == stack[Len(stack)]

Pop == SubSeq(stack, 1, Len(stack) - 1)

\* where a call resumes its caller
ResumeAt(caller) ==
  IF caller = <<>> THEN "done"
  ELSE IF caller[Len(caller)] = "main" THEN "store"
  ELSE "compute"

InitLocals ==
  /\ x = Zero /\ n = 0 /\ c = 0 /\ x0 = Zero /\ strides = <<>>
  /\ bit_len = 0 /\ shamt = Zero /\ ret = Zero
  /\ mem = <<>> /\ stores = <<>>
  /\ calls = 0 /\ prev = <<>>

\* the run starts in main, in smallestNumber(i) or in clz(w)
Init ==
  /\ InitLocals
  /\ \/ /\ entry = "main" /\ stack = <<"main">> /\ pc = "call"
        /\ mainpc = 1 /\ sn_n = 0
     \/ \E i \in SnInputs :
          /\ entry = "smallestNumber" /\ stack = <<"smallestNumber">>
          /\ pc = "call" /\ mainpc = 0 /\ sn_n = i
     \/ /\ entry = "clz" /\ stack = <<>> /\ pc = "start"
        /\ mainpc = 0 /\ sn_n = 0

\* --------------------------------------------------------------------- clz
\* clz(w) starting from n = 31
ClzEnterN31(w) ==
  /\ x' = w /\ x0' = w
  /\ n' = 31 /\ c' = 16
  /\ strides' = <<>>
  /\ stack' = Append(stack, "clz")
  /\ pc' = "loop"

\* the entry of clz(w): int n = 32, c = 16
ClzEnter(w) ==
  /\ x' = w /\ x0' = w
  /\ n' = 32 /\ c' = 16
  /\ strides' = <<>>
  /\ stack' = Append(stack, "clz")
  /\ pc' = "loop"

\* a round that assigns x = y outside the if
ClzRoundAlwaysShifts(s) ==
  LET y == Shr32(s.x, s.c)
  IN  IF y # Zero
      THEN [x |-> y, n |-> s.n - s.c, c |-> s.c \div 2]
      ELSE [x |-> y, n |-> s.n, c |-> s.c \div 2]

\* a round that takes the stride off n whether or not y is zero
ClzRoundAlwaysCounts(s) ==
  LET y == Shr32(s.x, s.c)
  IN  IF y # Zero
      THEN [x |-> y, n |-> s.n - s.c, c |-> s.c \div 2]
      ELSE [x |-> s.x, n |-> s.n - s.c, c |-> s.c \div 2]

\* one round of the do-while body on the locals s = [x, n, c]
ClzRound(s) ==
  LET y == Shr32(s.x, s.c)
  IN  IF y # Zero
      THEN [x |-> y, n |-> s.n - s.c, c |-> s.c \div 2]
      ELSE [x |-> s.x, n |-> s.n, c |-> s.c \div 2]

\* a caller outside this file calls clz(w)
CallClz ==
  /\ entry = "clz" /\ pc = "start"
  /\ \E w \in ClzInputs : ClzEnter(w)
  /\ UNCHANGED <<entry, sn_n, bit_len, shamt, ret, mainVars, calls, prev>>

\* do { ... } while (c)
ClzStep ==
  /\ stack # <<>> /\ Top = "clz" /\ pc = "loop"
  /\ LET t == ClzRound([x |-> x, n |-> n, c |-> c])
     IN  /\ x' = t.x /\ n' = t.n /\ c' = t.c
         /\ pc' = IF t.c # 0 THEN "loop" ELSE "ret"
  /\ strides' = Append(strides, c)
  /\ UNCHANGED <<entry, stack, x0, sn_n, bit_len, shamt, ret, mainVars,
                 calls, prev>>

\* return n, without the - x
ClzReturnNoSub ==
  /\ stack # <<>> /\ Top = "clz" /\ pc = "ret"
  /\ ret' = ToUnsigned(n)
  /\ stack' = Pop
  /\ pc' = ResumeAt(Pop)
  /\ UNCHANGED <<entry, clzVars, sn_n, bit_len, shamt, mainVars, calls, prev>>

\* return n - x, computed as unsigned int
ClzReturn ==
  /\ stack # <<>> /\ Top = "clz" /\ pc = "ret"
  /\ ret' = Sub32(ToUnsigned(n), x)
  /\ stack' = Pop
  /\ pc' = ResumeAt(Pop)
  /\ UNCHANGED <<entry, clzVars, sn_n, bit_len, shamt, mainVars, calls, prev>>

\* ---------------------------------------------------------- smallestNumber
\* 1 << s without the - 1
ShiftOutcomesNoDec(s) ==
  IF s[1] = 0 /\ s[2] < 32
  THEN {ToSigned(Shl32(ToUnsigned(1), s[2]))}
  ELSE {0, -1}

\* the values (1 << s) - 1 can take.  For s < 32 the 32-bit register holds
\* 1 << s and then that minus one, both modulo 2^32; for s = 31 both steps
\* leave the range of int, and the target's shift and add instructions wrap:
\* 0x80000000, then 0x7fffffff.  A shift by 32 or more
\* is undefined: a shifter that uses the low five bits of s gives
\* (1 << 0) - 1 = 0, one that shifts the bit out gives 0 - 1 = -1.
ShiftOutcomes(s) ==
  IF s[1] = 0 /\ s[2] < 32
  THEN {ToSigned(Sub32(Shl32(ToUnsigned(1), s[2]), ToUnsigned(1)))}
  ELSE {0, -1}

\* the call clz(n) in the initializer of bit_len
SnCallClz ==
  /\ stack # <<>> /\ Top = "smallestNumber" /\ pc = "call"
  /\ ClzEnter(ToUnsigned(sn_n))
  /\ UNCHANGED <<entry, sn_n, bit_len, shamt, ret, mainVars, calls, prev>>

\* the shift amount taken as 31 - clz(n)
SnComputeShiftOneLess ==
  /\ stack # <<>> /\ Top = "smallestNumber" /\ pc = "compute"
  /\ shamt' = Sub32(ToUnsigned(31), ret)
  /\ bit_len' \in ShiftOutcomes(shamt')
  /\ pc' = "ret"
  /\ UNCHANGED <<entry, stack, clzVars, sn_n, ret, mainVars, calls, prev>>

\* int bit_len = (1 << (32 - clz(n))) - 1
SnCompute ==
  /\ stack # <<>> /\ Top = "smallestNumber" /\ pc = "compute"
  /\ shamt' = Sub32(ToUnsigned(32), ret)
  /\ bit_len' \in ShiftOutcomes(shamt')
  /\ pc' = "ret"
  /\ UNCHANGED <<entry, stack, clzVars, sn_n, ret, mainVars, calls, prev>>

\* return bit_len
SnReturn ==
  /\ stack # <<>> /\ Top = "smallestNumber" /\ pc = "ret"
  /\ ret' = ToUnsigned(bit_len)
  /\ stack' = Pop
  /\ pc' = ResumeAt(Pop)
  /\ UNCHANGED <<entry, clzVars, sn_n, bit_len, shamt, mainVars, calls, prev>>

\* a caller outside this file calls smallestNumber again, with a fresh
\* argument or with the result it just got
CallAgain ==
  /\ entry = "smallestNumber" /\ pc = "done" /\ calls + 1 < MaxCalls
  /\ \E i \in SnInputs \cup {ToSigned(ret)} : sn_n' = i
  /\ prev' = <<sn_n, ToSigned(ret)>>
  /\ calls' = calls + 1
  /\ stack' = <<"smallestNumber">>
  /\ pc' = "call"
  /\ UNCHANGED <<entry, clzVars, bit_len, shamt, ret, mainVars>>

\* -------------------------------------------------------------------- main
\* the call smallestNumber(1), smallestNumber(509) or smallestNumber(1000)
MainCall ==
  /\ stack # <<>> /\ Top = "main" /\ pc = "call"
  /\ sn_n' = MainArgs[mainpc]
  /\ stack' = Append(stack, "smallestNumber")
  /\ pc' = "call"
  /\ UNCHANGED <<entry, clzVars, bit_len, shamt, ret, mainVars, calls, prev>>

\* *(int *) (4 * mainpc) = the value returned
MainStore ==
  /\ stack # <<>> /\ Top = "main" /\ pc = "store"
  /\ mem' = [a \in DOMAIN mem \cup {MainAddr(mainpc)} |->
               IF a = MainAddr(mainpc) THEN ToSigned(ret) ELSE mem[a]]
  /\ stores' = Append(stores, MainAddr(mainpc))
  /\ mainpc' = mainpc + 1
  /\ pc' = IF mainpc < Len(MainArgs) THEN "call" ELSE "ret"
  /\ UNCHANGED <<entry, stack, clzVars, sn_n, bit_len, shamt, ret, calls, prev>>

\* the closing brace of main
MainReturn ==
  /\ stack # <<>> /\ Top = "main" /\ pc = "ret"
  /\ stack' = Pop
  /\ pc' = "done"
  /\ UNCHANGED <<entry, clzVars, sn_n, bit_len, shamt, ret, mainVars, calls, prev>>

\* ----------------------------------------------------------- specification
\* the steps of the code itself
Program ==
  \/ ClzStep
  \/ ClzReturn
  \/ SnCallClz
  \/ SnCompute
  \/ SnReturn
  \/ MainCall
  \/ MainStore
  \/ MainReturn

Next ==
  \/ CallClz
  \/ CallAgain
  \/ Program

Spec == Init /\ [][Next]_vars

\* the code is one sequential thread that runs without blocking: a step
\* that can be taken is taken
FairSpec == Spec /\ WF_vars(Program)

TypeOK ==
  /\ entry \in {"main", "smallestNumber", "clz"}
  /\ pc \in {"start", "call", "loop", "ret", "compute", "store", "done"}
  /\ x \in (0..Half - 1) \X (0..Half - 1)
  /\ ret \in (0..Half - 1) \X (0..Half - 1)
  /\ n \in 0..32 /\ c \in 0..16
  /\ bit_len \in MinInt..MaxInt
  /\ sn_n \in MinInt..MaxInt
  /\ mainpc \in 0..4
  /\ calls \in 0..MaxCalls

\* ------------------------------------------------- notions the claims use
\* 2^k for 0 <= k <= 32, as a pair whose high half may reach 2^16
PowW(k) == IF k < 16 THEN <<0, 2^k>> ELSE <<2^(k - 16), 0>>

\* a < b and a <= b on such pairs
ULt(a, b) == a[1] < b[1] \/ (a[1] = b[1] /\ a[2] < b[2])

ULe(a, b) == a = b \/ ULt(a, b)

\* the number of bits needed to write w; 0 for w = 0
BitLength(w) ==
  IF w = Zero THEN 0
  ELSE CHOOSE k \in 1..32 : ULe(PowW(k - 1), w) /\ ULt(w, PowW(k))

\* 2^k - 1 for 0 <= k <= 31
RECURSIVE Mask(_)
Mask(k) == IF k = 0 THEN 0 ELSE (2 * Mask(k - 1)) + 1

IsMask(v) == \E k \in 1..31 : v = Mask(k)

\* a call of clz is active
InClz == stack # <<>> /\ Top = "clz"

\* a call of clz has just returned: ret = clz(x0)
ClzReturned == pc = "compute" \/ (entry = "clz" /\ pc = "done")

\* a call of smallestNumber has just returned: ret = smallestNumber(sn_n)
SnReturned == pc = "store" \/ (entry = "smallestNumber" /\ pc = "done")

\* the result of the call that has just returned, as the int it is
Result == ToSigned(ret)

\* the argument is in the domain 1 <= n < 2^31
InDomain == sn_n >= 1

\* ------------------------------------------------------------------ claims
\* C1: clz(x) is the number of leading zero bits of x: clz(0) = 32, and for
\* x # 0 the result r has 0 <= r <= 31 and 2^(31 - r) <= x < 2^(32 - r).
ClzCountsLeadingZeros ==
  ClzReturned =>
    /\ ret[1] = 0
    /\ x0 = Zero => ret = <<0, 32>>
    /\ x0 # Zero =>
         /\ ret[2] \in 0..31
         /\ ULe(PowW(31 - ret[2]), x0)
         /\ ULt(x0, PowW(32 - ret[2]))

\* clz has returned 0 for a word whose bit 31 is set
ClzTopBitWitness ==
  /\ entry = "clz" /\ pc = "done"
  /\ x0 = <<Half - 1, Half - 2>>
  /\ ret = Zero

\* C2: for 1 <= n < 2^31, smallestNumber(n) = 2^k - 1 for the smallest k
\* with 2^k > n: the result is >= n and the next smaller mask is < n.
SnIsCoveringMask ==
  (SnReturned /\ InDomain) =>
    \E k \in 1..31 :
      /\ Result = Mask(k)
      /\ Result >= sn_n
      /\ Mask(k - 1) < sn_n
      /\ (Result - 1) \div 2 < sn_n

\* smallestNumber(2^30) has returned 2^31 - 1
SnCoveringWitness ==
  /\ SnReturned /\ sn_n = Pow2(30) /\ Result = MaxInt

\* C3, as stated: for n = 2^k - 1 the result is the next mask 2n + 1
\* (2n + 1 is no int for n = 2^31 - 1, which is left out here).
SnMaskGoesToNextMask ==
  (SnReturned /\ InDomain) =>
    \A k \in 1..30 : sn_n = Mask(k) => Result = Mask(k + 1)

\* C3, amended: for n = 2^k - 1, 1 <= k <= 31, smallestNumber(n) = n; in
\* particular smallestNumber(3) = 3.
SnMaskIsFixed ==
  (SnReturned /\ InDomain /\ IsMask(sn_n)) => Result = sn_n

\* smallestNumber(3) has returned 3
SnThreeWitness ==
  /\ SnReturned /\ sn_n = 3 /\ Result = 3 /\ calls = 0

\* C4: when main has run to completion, the words at the byte offsets 4, 8
\* and 12 hold 1, 511 and 1023.
MainResults ==
  (entry = "main" /\ pc = "done") =>
    /\ {4, 8, 12} \subseteq DOMAIN mem
    /\ mem[4] = 1 /\ mem[8] = 511 /\ mem[12] = 1023

\* main has returned, having stored to the word at offset 12
MainDoneWitness ==
  /\ entry = "main" /\ pc = "done" /\ stack = <<>>
  /\ 12 \in DOMAIN mem

\* C5: main makes exactly three stores, to the offsets 4, 8, 12 in that
\* order, each word once and no other word ever, and then terminates.
StoresInOrder ==
  /\ \E k \in 0..3 : stores = SubSeq(<<4, 8, 12>>, 1, k)
  /\ DOMAIN mem = {stores[i] : i \in 1..Len(stores)}
  /\ pc = "done" => stores = <<4, 8, 12>>

MainStoresThenTerminates ==
  /\ [](entry = "main" => StoresInOrder)
  /\ (entry = "main") ~> (pc = "done" /\ stack = <<>> /\ Len(stores) = 3)

\* main has returned after the three stores
MainStoresWitness ==
  /\ entry = "main" /\ pc = "done" /\ stores = <<4, 8, 12>> /\ mainpc = 4

\* C6: smallestNumber is non-decreasing on [1, 2^31 - 1], results compared
\* as signed ints: of two calls, the larger argument has the larger or
\* equal result.
SnMonotone ==
  (SnReturned /\ InDomain /\ calls >= 1 /\ prev[1] >= 1) =>
    /\ prev[1] <= sn_n => prev[2] <= Result
    /\ sn_n <= prev[1] => Result <= prev[2]

\* smallestNumber(2^30 - 1) = 2^30 - 1 was followed by
\* smallestNumber(2^30) = 2^31 - 1
SnMonotoneWitness ==
  /\ SnReturned /\ calls = 1
  /\ prev = <<Pow2(30) - 1, Pow2(30) - 1>>
  /\ sn_n = Pow2(30) /\ Result = MaxInt

\* C7: for 1 <= n < 2^31 the shift amount 32 - clz(n) is in 1..31 and the
\* result, computed modulo 2^32, is an int in 1..2^31 - 1, also for
\* n >= 2^30, where 1 << 31 is above the largest int.
SnShiftAndResultInRange ==
  (SnReturned /\ InDomain) =>
    /\ shamt[1] = 0 /\ shamt[2] >= 1 /\ shamt[2] <= 31
    /\ Result >= 1 /\ Result <= MaxInt
    /\ sn_n >= Pow2(30) => (shamt[2] = 31 /\ Result = MaxInt)

\* smallestNumber(2^31 - 1) has shifted by 31 and returned 2^31 - 1
SnShift31Witness ==
  /\ SnReturned /\ sn_n = MaxInt /\ shamt = <<0, 31>> /\ Result = MaxInt

\* C8: the loop of clz runs exactly 5 rounds, with the strides 16, 8, 4, 2,
\* 1 in that order whatever x is, and leaves x = 0 or x = 1, x = 0 only for
\* the input 0.
ClzFiveRounds ==
  InClz =>
    /\ \E k \in 0..5 : strides = SubSeq(<<16, 8, 4, 2, 1>>, 1, k)
    /\ pc = "loop" => (Len(strides) < 5 /\ c = <<16, 8, 4, 2, 1>>[Len(strides) + 1])
    /\ pc = "ret" =>
         /\ strides = <<16, 8, 4, 2, 1>>
         /\ c = 0
         /\ x \in {Zero, One}
         /\ x = Zero => x0 = Zero

\* the loop has ended on x = 1 for the input 2^32 - 1
ClzLoopEndWitness ==
  /\ InClz /\ pc = "ret" /\ x0 = <<Half - 1, Half - 1>> /\ x = One
  /\ Len(strides) = 5

\* C9: in clz, before every round with stride c, and at the loop's end with
\* 1 in place of 2c: x < 2^(2c), 1 <= n <= 32 and
\* (32 - n) + BitLength(x) = BitLength(x0); a round that takes the branch
\* takes c bits off x and c off n, any other round leaves x and n alone.
ClzLoopInvariant ==
  InClz =>
    /\ ULt(x, PowW(IF c = 0 THEN 1 ELSE 2 * c))
    /\ n >= 1 /\ n <= 32
    /\ (32 - n) + BitLength(x) = BitLength(x0)

ClzRoundEffect ==
  (InClz /\ pc = "loop") =>
    \/ x' = x /\ n' = n
    \/ /\ ULe(PowW(c), x)
       /\ BitLength(x') = BitLength(x) - c
       /\ n' = n - c

ClzLoopInvariantAndRounds ==
  /\ []ClzLoopInvariant
  /\ [][ClzRoundEffect]_vars

\* a round with stride 4 has taken the branch in clz(2^31 + 1)
ClzBranchWitness ==
  /\ InClz /\ x0 = <<Half \div 2, 1>> /\ strides = <<16, 8, 4>>
  /\ x = <<0, 8>> /\ n = 4

\* C10: smallestNumber(smallestNumber(n)) = smallestNumber(n) for
\* 1 <= n < 2^31.
SnIdempotent ==
  (SnReturned /\ calls >= 1 /\ prev[1] >= 1 /\ sn_n = prev[2]) =>
    Result = prev[2]

\* smallestNumber(5) = 7 was followed by smallestNumber(7) = 7
SnIdempotentWitness ==
  /\ SnReturned /\ calls = 1 /\ prev = <<5, 7>> /\ sn_n = 7 /\ Result = 7

====
